---- MODULE Spec2Model ----
(***************************************************************************)
(* A model of dns-exporter's collector (src/main.go): DNSCollector.Collect *)
(* fans out one goroutine per registered host, each running resolveHost,   *)
(* and joins them with a sync.WaitGroup.  The two counter maps are written *)
(* under their mutexes and read back, for the emitted samples, without.    *)
(***************************************************************************)
EXTENDS Naturals, Integers, Sequences, FiniteSets, Bags, TLC

\* ------------------------------------------------------------------ bounds
MaxHosts  == 2   \* longest registry (len(config.Hosts))
MaxCycles == 2   \* Collect invocations (scrapes) in a behaviour
MaxProbes == 2   \* resolveHost goroutines of overlapping scrapes
MaxSeq    == 4   \* resolveHost goroutines of successive scrapes
MaxSame   == 2   \* resolveHost goroutines of one host in overlapping scrapes
MaxTime   == 2   \* clock ticks in a timed behaviour

HostNames == {"a", "b"}

\* Metric names built by NewDNSCollector (BuildFQName(Namespace, "", ...)).
TotalName      == "dns_exporter_resolution_total"
TotalErrorName == "dns_exporter_resolution_error_total"
LatencyName    == "dns_exporter_resolution_seconds"

\* Overlapping scrapes of a one-host registry in a wide behaviour.
MaxOverlap == MaxCycles + 1

Cycles == 1..MaxOverlap
Probes == Cycles \X (1..MaxHosts)   \* <<cycle, index into hosts>>
Free   == <<0, 0>>                  \* an unlocked sync.Mutex

\* Registries the collector is constructed with (config.Hosts), repetitions
\* and the empty list included; up to the naming of the hosts, so the first
\* entry is "a".
Registries ==
  {r \in UNION {[1..n -> HostNames] : n \in 0..MaxHosts} : Len(r) > 0 => r[1] = "a"}

VARIABLES
  hosts,                 \* e.hosts
  totalCount,            \* e.totalCount: map[string]int
  totalCountMutex,       \* holder of e.totalCountMutex, or Free
  totalErrorCount,       \* e.totalErrorCount: map[string]int
  totalErrorCountMutex,  \* holder of e.totalErrorCountMutex, or Free
  started,               \* number of Collect invocations so far
  cpc,                   \* position of each Collect invocation
  idx,                   \* Collect's range index over e.hosts
  wg,                    \* Collect's sync.WaitGroup counter
  pc,                    \* position of each resolveHost goroutine
  start,                 \* resolveHost local: start
  err,                   \* resolveHost local: err ("none" before the lookup returns)
  elapsed,               \* resolveHost local: elapsed
  tmp,                   \* the operand loaded by `m[host] += 1`
  argTotal,              \* e.totalCount[host] as evaluated on line 105
  argError,              \* e.totalErrorCount[host] as evaluated on line 106
  snap,                  \* history: the error counts of the host that stood together
                         \* with argTotal since the read of line 105
  ch,                    \* samples the sink received on each cycle's channel
  logged,                \* log.Printf lines written, per goroutine
  lookupEnd,             \* time at which net.LookupHost returned
  now,                   \* wall clock
  crashed                \* the runtime threw a fatal error

collector == <<hosts, totalCount, totalCountMutex, totalErrorCount, totalErrorCountMutex>>
collect   == <<started, cpc, idx, wg>>
locals    == <<start, err, elapsed, tmp, argTotal, argError, snap, lookupEnd>>
vars == <<collector, collect, pc, locals, ch, logged, now, crashed>>

\* ---------------------------------------------------------------- helpers
\* Go map read: the zero value for a missing key.
Get(m, h) == IF h \in DOMAIN m THEN m[h] ELSE 0

\* Go map write: inserts the key when missing.
Put(m, h, v) == [k \in DOMAIN m \cup {h} |-> IF k = h THEN v ELSE m[k]]

\* The closure reading the loop variable after the loop has moved on.
HostOfCaptured(g) == hosts[Len(hosts)]

\* The host argument of goroutine g (the range variable passed to go func).
HostOf(g) == hosts[g[2]]

\* How often the registry lists host h.
Occurrences(h) == Cardinality({i \in DOMAIN hosts : hosts[i] = h})

\* prometheus.MustNewConstMetric(desc, _, value, host)
Sample(name, host, value) == [name |-> name, host |-> host, value |-> value]

\* Another goroutine is inside `m[host] += 1` on the given map.
WritingTotal(g)      == \E w \in Probes : w # g /\ pc[w] = "totStore"
WritingTotalError(g) == \E w \in Probes : w # g /\ pc[w] = "errStore"

\* --------------------------------------------------------------- initial
Init ==
  /\ hosts \in Registries
  /\ totalCount = <<>>
  /\ totalErrorCount = <<>>
  /\ totalCountMutex = Free
  /\ totalErrorCountMutex = Free
  /\ started = 0
  /\ cpc = [c \in Cycles |-> "idle"]
  /\ idx = [c \in Cycles |-> 0]
  /\ wg = [c \in Cycles |-> 0]
  /\ pc = [g \in Probes |-> "idle"]
  /\ start = [g \in Probes |-> 0]
  /\ err = [g \in Probes |-> "none"]
  /\ elapsed = [g \in Probes |-> 0]
  /\ tmp = [g \in Probes |-> 0]
  /\ argTotal = [g \in Probes |-> 0]
  /\ argError = [g \in Probes |-> 0]
  /\ snap = [g \in Probes |-> {}]
  /\ lookupEnd = [g \in Probes |-> 0]
  /\ ch = [c \in Cycles |-> EmptyBag]
  /\ logged = [g \in Probes |-> 0]
  /\ now = 0
  /\ crashed = FALSE

\* ---------------------------------------------------------------- Collect
\* Whether another Collect may be invoked, possibly overlapping the others,
\* within the bounds.
CanInvoke(c) ==
  /\ c = started + 1
  /\ c <= MaxCycles
  /\ c * Len(hosts) <= MaxProbes
  /\ \A h \in HostNames : c * Occurrences(h) <= MaxSame

\* wg.Add(1) in place of wg.Add(len(e.hosts)).
AddOne(n) == 1

\* The delta of wg.Add(len(e.hosts)).
Add(n) == n

\* Collect is entered: wg.Add(len(e.hosts)), then the range loop.
CollectEnter(c) ==
  /\ cpc[c] = "idle"
  /\ started' = c
  /\ wg' = [wg EXCEPT ![c] = wg[c] + Add(Len(hosts))]
  /\ idx' = [idx EXCEPT ![c] = 1]
  /\ cpc' = [cpc EXCEPT ![c] = "loop"]
  /\ UNCHANGED <<collector, pc, locals, ch, logged, now, crashed>>

\* A scrape arrives at any time, also while earlier ones are in flight.
CollectBegin(c) ==
  /\ ~crashed
  /\ CanInvoke(c)
  /\ CollectEnter(c)

\* Whether another Collect may be invoked, after the others, within the bounds.
CanInvokeSeq(c) ==
  /\ c = started + 1
  /\ c <= MaxCycles
  /\ c * Len(hosts) <= MaxSeq

\* A scrape arrives once the earlier ones have returned.
CollectBeginSeq(c) ==
  /\ ~crashed
  /\ CanInvokeSeq(c)
  /\ \A d \in Cycles : cpc[d] \in {"idle", "returned"}
  /\ CollectEnter(c)

\* One iteration of the loop: go func(host) {...}(host) creates the
\* goroutine, which runs when the scheduler picks it.
Go(c) ==
  /\ ~crashed
  /\ cpc[c] = "loop"
  /\ idx[c] <= Len(hosts)
  /\ pc' = [pc EXCEPT ![<<c, idx[c]>>] = "start"]
  /\ idx' = [idx EXCEPT ![c] = idx[c] + 1]
  /\ UNCHANGED <<collector, started, cpc, wg, locals, ch, logged, now, crashed>>

\* A join that does not wait.
WaitReadyAlways(c) == TRUE

\* wg.Wait() blocks while the counter is positive.
WaitReady(c) == wg[c] = 0

\* The loop is over, wg.Wait() returns and so does Collect.
Wait(c) ==
  /\ ~crashed
  /\ cpc[c] = "loop"
  /\ idx[c] > Len(hosts)
  /\ WaitReady(c)
  /\ cpc' = [cpc EXCEPT ![c] = "returned"]
  /\ UNCHANGED <<collector, started, idx, wg, pc, locals, ch, logged, now, crashed>>

\* ------------------------------------------------------------ resolveHost
At(g, l) == ~crashed /\ pc[g] = l
Goto(g, l) == pc' = [pc EXCEPT ![g] = l]

\* time.Since(start)
Since(t) == now - t

\* The error branch taken whatever err is.
AfterLookupAlways(failed) == "errLock"

\* Where resolveHost continues once the lookup has returned: if err != nil.
AfterLookup(failed) == IF failed THEN "errLock" ELSE "totLock"

\* The goroutine starts resolveHost: start := time.Now(), and calls
\* net.LookupHost(host).
TimeNow(g) ==
  /\ At(g, "start")
  /\ start' = [start EXCEPT ![g] = now]
  /\ Goto(g, "lookup")
  /\ UNCHANGED <<collector, collect, err, elapsed, tmp, argTotal, argError,
                 snap, lookupEnd, ch, logged, now, crashed>>

\* _, err := net.LookupHost(host) returns, with or without an error; without,
\* the next statement is elapsed := time.Since(start).
LookupHost(g, failed) ==
  /\ At(g, "lookup")
  /\ err' = [err EXCEPT ![g] = IF failed THEN "error" ELSE "nil"]
  /\ lookupEnd' = [lookupEnd EXCEPT ![g] = now]
  /\ elapsed' = [elapsed EXCEPT ![g] = IF failed THEN elapsed[g] ELSE Since(start[g])]
  /\ Goto(g, AfterLookup(failed))
  /\ UNCHANGED <<collector, collect, start, tmp, argTotal, argError,
                 snap, ch, logged, now, crashed>>

\* A lock that excludes nobody.
CanLockAlways(m) == TRUE

\* A mutex taken before the lookup and kept across it.
CanLockAfterLookups(m) == m = Free /\ \A w \in Probes : pc[w] # "lookup"

\* One mutex guarding both maps.
CanLockGlobal(m) == totalCountMutex = Free /\ totalErrorCountMutex = Free

\* sync.Mutex.Lock blocks while the mutex is held.
CanLock(m) == m = Free

\* e.totalErrorCountMutex.Lock(), and e.totalErrorCount[host] += 1 loads
\* its operand.
ErrLock(g) ==
  /\ At(g, "errLock")
  /\ CanLock(totalErrorCountMutex)
  /\ totalErrorCountMutex' = g
  /\ tmp' = [tmp EXCEPT ![g] = Get(totalErrorCount, HostOf(g))]
  /\ Goto(g, "errStore")
  /\ UNCHANGED <<hosts, totalCount, totalCountMutex, totalErrorCount,
                 collect, start, err, elapsed, argTotal, argError,
                 snap, lookupEnd, ch, logged, now, crashed>>

\* The value `e.totalErrorCount[host] += 1` stores.
ErrSum(g) == tmp[g] + 1

\* An Unlock left out: the goroutine keeps the mutex.
UnlockMissing(g) == g

\* sync.Mutex.Unlock by its holder g.
Unlock(g) == Free

\* History: a probe of the same host that is between its reads of lines 105
\* and 106, and whose total still stands, has seen the error count v beside it.
Beside(g, w, v) ==
  IF /\ g[2] \in DOMAIN hosts
     /\ HostOf(g) = HostOf(w)
     /\ pc[g] \in {"sendTotal", "readError"}
     /\ Get(totalCount, HostOf(g)) = argTotal[g]
  THEN snap[g] \cup {v}
  ELSE snap[g]

\* The sum is stored, and e.totalErrorCountMutex.Unlock().
ErrStore(g) ==
  /\ At(g, "errStore")
  /\ totalErrorCount' = Put(totalErrorCount, HostOf(g), ErrSum(g))
  /\ tmp' = [tmp EXCEPT ![g] = 0]
  /\ totalErrorCountMutex' = Unlock(g)
  /\ snap' = [p \in Probes |-> Beside(p, g, ErrSum(g))]
  /\ Goto(g, "log")
  /\ UNCHANGED <<hosts, totalCount, totalCountMutex,
                 collect, start, err, elapsed, argTotal, argError,
                 lookupEnd, ch, logged, now, crashed>>

\* log.Printf("could not lookup host ..."), then elapsed := time.Since(start).
LogPrintf(g) ==
  /\ At(g, "log")
  /\ logged' = [logged EXCEPT ![g] = logged[g] + 1]
  /\ elapsed' = [elapsed EXCEPT ![g] = Since(start[g])]
  /\ Goto(g, "totLock")
  /\ UNCHANGED <<collector, collect, start, err, tmp, argTotal, argError,
                 snap, lookupEnd, ch, now, crashed>>

\* e.totalCountMutex.Lock(), and e.totalCount[host] += 1 loads its operand.
TotLock(g) ==
  /\ At(g, "totLock")
  /\ CanLock(totalCountMutex)
  /\ totalCountMutex' = g
  /\ tmp' = [tmp EXCEPT ![g] = Get(totalCount, HostOf(g))]
  /\ Goto(g, "totStore")
  /\ UNCHANGED <<hosts, totalCount, totalErrorCount, totalErrorCountMutex,
                 collect, start, err, elapsed, argTotal, argError,
                 snap, lookupEnd, ch, logged, now, crashed>>

\* `e.totalCount[host] = 1` in place of `+= 1`.
TotSumAssign(g) == 1

\* `e.totalCount[host] += 2`.
TotSumTwice(g) == tmp[g] + 2

\* The value `e.totalCount[host] += 1` stores.
TotSum(g) == tmp[g] + 1

\* The sum is stored, and e.totalCountMutex.Unlock().
TotStore(g) ==
  /\ At(g, "totStore")
  /\ totalCount' = Put(totalCount, HostOf(g), TotSum(g))
  /\ tmp' = [tmp EXCEPT ![g] = 0]
  /\ totalCountMutex' = Unlock(g)
  /\ Goto(g, "readTotal")
  /\ UNCHANGED <<hosts, totalErrorCount, totalErrorCountMutex,
                 collect, start, err, elapsed, argTotal, argError,
                 snap, lookupEnd, ch, logged, now, crashed>>

\* A send on Collect's channel, received by the sink.
Send(c, s) == ch' = [ch EXCEPT ![c] = ch[c] (+) SetToBag({s})]

\* The count as it stood before this probe's increment.
LoadTotalBefore(g) == Get(totalCount, HostOf(g)) - 1

\* float64(e.totalCount[host]), evaluated with no mutex held.
LoadTotal(g) == Get(totalCount, HostOf(g))

\* The operand of the send of line 105 is evaluated: the metric is built
\* from e.totalCount[host] as it is read now.
ReadTotal(g) ==
  /\ At(g, "readTotal")
  /\ argTotal' = [argTotal EXCEPT ![g] = LoadTotal(g)]
  /\ snap' = [snap EXCEPT ![g] = {Get(totalErrorCount, HostOf(g))}]
  /\ Goto(g, "sendTotal")
  /\ UNCHANGED <<collector, collect, start, err, elapsed, tmp, argError,
                 lookupEnd, ch, logged, now, crashed>>

\* The read of line 105 while another goroutine writes the map: the runtime
\* may throw "fatal error: concurrent map read and map write".
ReadTotalFatal(g) ==
  /\ At(g, "readTotal")
  /\ WritingTotal(g)
  /\ crashed' = TRUE
  /\ UNCHANGED <<collector, collect, pc, locals, ch, logged, now>>

\* ch <- MustNewConstMetric(e.total, CounterValue, ..., host): the blocked
\* send completes when the sink receives the metric built before.
SendTotal(g) ==
  /\ At(g, "sendTotal")
  /\ Send(g[1], Sample(TotalName, HostOf(g), argTotal[g]))
  /\ Goto(g, "readError")
  /\ UNCHANGED <<collector, collect, locals, logged, now, crashed>>

\* float64(e.totalErrorCount[host]), evaluated with no mutex held.
LoadError(g) == Get(totalErrorCount, HostOf(g))

\* e.total passed where e.totalError belongs.
ErrorDescPasted == TotalName

\* The descriptor of the sample sent on line 106: e.totalError.
ErrorDesc == TotalErrorName

\* The operand of the send of line 106 is evaluated: the metric is built
\* from e.totalErrorCount[host] as it is read now.
ReadError(g) ==
  /\ At(g, "readError")
  /\ argError' = [argError EXCEPT ![g] = LoadError(g)]
  /\ snap' = [snap EXCEPT ![g] = snap[g] \cap {LoadError(g)}]
  /\ Goto(g, "sendError")
  /\ UNCHANGED <<collector, collect, start, err, elapsed, tmp, argTotal,
                 lookupEnd, ch, logged, now, crashed>>

\* The read of line 106 while another goroutine writes the map.
ReadErrorFatal(g) ==
  /\ At(g, "readError")
  /\ WritingTotalError(g)
  /\ crashed' = TRUE
  /\ UNCHANGED <<collector, collect, pc, locals, ch, logged, now>>

\* ch <- MustNewConstMetric(e.totalError, CounterValue, ..., host): the
\* blocked send completes when the sink receives the metric built before.
SendError(g) ==
  /\ At(g, "sendError")
  /\ Send(g[1], Sample(ErrorDesc, HostOf(g), argError[g]))
  /\ Goto(g, "sendLatency")
  /\ UNCHANGED <<collector, collect, locals, logged, now, crashed>>

\* ch <- MustNewConstMetric(e.latency, GaugeValue, elapsed.Seconds(), host)
SendLatency(g) ==
  /\ At(g, "sendLatency")
  /\ Send(g[1], Sample(LatencyName, HostOf(g), elapsed[g]))
  /\ Goto(g, "wgDone")
  /\ UNCHANGED <<collector, collect, locals, logged, now, crashed>>

\* defer wg.Done()
WgDone(g) ==
  /\ At(g, "wgDone")
  /\ wg' = [wg EXCEPT ![g[1]] = wg[g[1]] - 1]
  /\ Goto(g, "exited")
  /\ UNCHANGED <<collector, started, cpc, idx, locals, ch, logged, now, crashed>>

\* Wall-clock time passes.
Tick ==
  /\ ~crashed
  /\ now < MaxTime
  /\ now' = now + 1
  /\ UNCHANGED <<collector, collect, pc, locals, ch, logged, crashed>>

\* ------------------------------------------------------- specifications
ProbeStep(g) ==
  \/ TimeNow(g)
  \/ \E failed \in BOOLEAN : LookupHost(g, failed)
  \/ ErrLock(g)
  \/ ErrStore(g)
  \/ LogPrintf(g)
  \/ TotLock(g)
  \/ TotStore(g)
  \/ ReadTotal(g)
  \/ ReadTotalFatal(g)
  \/ SendTotal(g)
  \/ ReadError(g)
  \/ ReadErrorFatal(g)
  \/ SendError(g)
  \/ SendLatency(g)
  \/ WgDone(g)

CollectStep(c) == Go(c) \/ Wait(c)

Running == \E g \in Probes : ProbeStep(g)
Joining == \E c \in Cycles : CollectStep(c)

\* Scrapes may overlap.
Next ==
  \/ \E c \in Cycles : CollectBegin(c)
  \/ Joining
  \/ Running

Spec == Init /\ [][Next]_vars

\* Scrapes come one after another.
NextSeq ==
  \/ \E c \in Cycles : CollectBeginSeq(c)
  \/ Joining
  \/ Running

SpecSeq == Init /\ [][NextSeq]_vars

\* Scrapes may overlap, and time passes.
NextTimed ==
  \/ \E c \in Cycles : CollectBegin(c)
  \/ Joining
  \/ Running
  \/ Tick

SpecTimed == Init /\ [][NextTimed]_vars

\* A one-host registry whose scrapes overlap more deeply.
InitWide == Init /\ hosts = <<"a">>

CollectBeginWide(c) ==
  /\ ~crashed
  /\ c = started + 1
  /\ c <= MaxOverlap
  /\ CollectEnter(c)

NextWide ==
  \/ \E c \in Cycles : CollectBeginWide(c)
  \/ Joining
  \/ Running

SpecWide == InitWide /\ [][NextWide]_vars

\* Scrapes may overlap; every goroutine that can run eventually does, every
\* lookup returns and the sink receives every sample.
FairSpec ==
  /\ Init
  /\ [][Next]_vars
  /\ \A g \in Probes : WF_vars(ProbeStep(g))
  /\ \A c \in Cycles : WF_vars(CollectStep(c))

\* ----------------------------------------------------------- vocabulary
Returned(c) == cpc[c] = "returned"
InFlight(c) == cpc[c] = "loop"
Quiescent   == \A c \in Cycles : ~InFlight(c)
NumReturned == Cardinality({c \in Cycles : Returned(c)})
Distinct    == \A h \in HostNames : Occurrences(h) <= 1

\* The goroutines Collect invocation c launches, and those probing host h.
ProbesOf(c)  == {g \in Probes : g[1] = c /\ g[2] \in DOMAIN hosts}
ProbesFor(h) == {g \in Probes : g[2] \in DOMAIN hosts /\ hosts[g[2]] = h}

\* Positions after the send of line 106 and that of line 105, after the
\* reads for them, and after lines 103 and 94.
PastSendError == {"sendLatency", "wgDone", "exited"}
PastReadError == {"sendError"} \cup PastSendError
PastSendTotal == {"readError"} \cup PastReadError
PastReadTotal == {"sendTotal"} \cup PastSendTotal
PastTotStore  == {"readTotal"} \cup PastReadTotal
PastErrStore  == {"log", "totLock", "totStore"} \cup PastTotStore

\* The samples of bag B with the given name and host label.
Matching(B, name, h) ==
  LET S == {s \in BagToSet(B) : s.name = name /\ s.host = h}
  IN  BagCardinality([s \in S |-> B[s]])

MetricNames == {TotalName, TotalErrorName, LatencyName}

\* Failed lookups of the host of registry entry i in cycles 1..k.
FailedUpTo(i, k) == Cardinality({j \in 1..k : err[<<j, i>>] = "error"})

\* ------------------------------------------------------------------ C1
\* C1: for a registry of distinct hosts, whenever N Collect cycles have run
\* to completion one after another and none is in flight, totalCount[h] = N
\* for every host h of the registry.
C1_AttemptCountIsCycles ==
  (Distinct /\ Quiescent) =>
    \A i \in DOMAIN hosts : Get(totalCount, hosts[i]) = NumReturned

\* Two cycles over two distinct hosts have completed, one lookup failed.
C1_Witness ==
  /\ hosts = <<"a", "b">>
  /\ Quiescent
  /\ NumReturned = 2
  /\ err[<<1, 2>>] = "error"
  /\ Get(totalCount, "b") = 2

\* ------------------------------------------------------------------ C2
\* C2: under overlapping cycles no increment of totalCount is lost: in every
\* state totalCount[h] is the number of probes of h that have executed their
\* increment, and once all M started cycles have completed it is M for every
\* host of a registry of distinct hosts.
C2_NoLostIncrement ==
  /\ \A h \in HostNames :
       Get(totalCount, h) = Cardinality({g \in ProbesFor(h) : pc[g] \in PastTotStore})
  /\ (Distinct /\ Quiescent) =>
       \A i \in DOMAIN hosts : Get(totalCount, hosts[i]) = started

\* Two cycles over one host overlapped (the first cycle's probe read the
\* count after the second cycle's probe had incremented it) and completed.
C2_Witness ==
  /\ hosts = <<"a">>
  /\ Quiescent
  /\ started = 2
  /\ argTotal[<<1, 1>>] = 2
  /\ Get(totalCount, "a") = 2

\* ------------------------------------------------------------------ C3
\* C3: in every reachable state totalErrorCount[h] <= totalCount[h], for
\* every host h.
C3_ErrorAtMostAttempts ==
  \A h \in HostNames : Get(totalErrorCount, h) <= Get(totalCount, h)

\* ------------------------------------------------------------------ C4
\* The error count of h is the number of failed lookups of h whose probe
\* has passed its error increment.
ErrorCountIsFailures ==
  \A h \in HostNames :
    Get(totalErrorCount, h) =
      Cardinality({g \in ProbesFor(h) : err[g] = "error" /\ pc[g] \in PastErrStore})

\* A step changes the error count of h only as the error increment of a
\* failed probe of h, by one; and the attempt count of h only as the attempt
\* increment of a probe of h.
CountersFrame ==
  \A h \in HostNames :
    /\ Get(totalErrorCount', h) # Get(totalErrorCount, h) =>
         \E g \in ProbesFor(h) :
           /\ err[g] = "error"
           /\ pc[g] = "errStore" /\ pc'[g] = "log"
           /\ Get(totalErrorCount', h) = Get(totalErrorCount, h) + 1
    /\ Get(totalCount', h) # Get(totalCount, h) =>
         \E g \in ProbesFor(h) : pc[g] = "totStore" /\ pc'[g] = "readTotal"

\* C4: totalErrorCount changes only by failed lookups: a failed probe of h
\* adds exactly one to totalErrorCount[h], a successful one leaves it alone,
\* no probe changes a counter of another host; so after any set of completed
\* cycles totalErrorCount[h] is the number of failed lookups of h.
C4_ErrorCountOnlyByFailures ==
  /\ []ErrorCountIsFailures
  /\ [][CountersFrame]_vars
  /\ [](Quiescent =>
         \A h \in HostNames :
           Get(totalErrorCount, h) =
             Cardinality({g \in ProbesFor(h) : err[g] = "error"}))

\* Two overlapped cycles over one host have completed, one lookup failed and
\* one succeeded.
C4_Witness ==
  /\ hosts = <<"a">>
  /\ Quiescent
  /\ started = 2
  /\ err[<<1, 1>>] = "error"
  /\ err[<<2, 1>>] = "nil"
  /\ argTotal[<<1, 1>>] = 2
  /\ Get(totalErrorCount, "a") = 1

\* ------------------------------------------------------------------ C5
\* The three samples of probe g are among those the sink received.
SamplesSent(g) ==
  /\ CopiesIn(Sample(TotalName, HostOf(g), argTotal[g]), ch[g[1]]) >= 1
  /\ CopiesIn(Sample(TotalErrorName, HostOf(g), argError[g]), ch[g[1]]) >= 1
  /\ CopiesIn(Sample(LatencyName, HostOf(g), elapsed[g]), ch[g[1]]) >= 1

\* C5: when a Collect invocation has returned, each probe it launched has
\* completed its lookup, updated the counters, sent its three samples and
\* exited.
C5_ReturnAfterAllProbes ==
  \A c \in Cycles : Returned(c) =>
    \A g \in ProbesOf(c) :
      /\ pc[g] = "exited"
      /\ err[g] # "none"
      /\ Get(totalCount, HostOf(g)) >= 1
      /\ (err[g] = "error" => Get(totalErrorCount, HostOf(g)) >= 1)
      /\ SamplesSent(g)

\* A cycle has returned while a later one is in flight, its probe launched
\* and not yet running.
C5_Witness ==
  /\ Len(hosts) = 1
  /\ Returned(1)
  /\ InFlight(2)
  /\ pc[<<2, 1>>] = "start"

\* ------------------------------------------------------------------ C6
\* C6: a completed cycle has emitted exactly three samples per registry
\* entry and nothing else: per host and metric name as many samples as the
\* registry lists the host (one, for distinct hosts), 3 * len(hosts) in all.
C6_ThreeSamplesPerEntry ==
  \A c \in Cycles : Returned(c) =>
    /\ BagCardinality(ch[c]) = 3 * Len(hosts)
    /\ \A s \in BagToSet(ch[c]) : s.name \in MetricNames
    /\ \A h \in HostNames : \A n \in MetricNames :
         Matching(ch[c], n, h) = Occurrences(h)

\* A cycle over two distinct hosts has returned, one lookup failed and the
\* other succeeded.
C6_Witness ==
  /\ hosts = <<"a", "b">>
  /\ Returned(1)
  /\ err[<<1, 1>>] = "error"
  /\ err[<<1, 2>>] = "nil"
  /\ BagCardinality(ch[1]) = 6

\* ------------------------------------------------------------------ C7
\* C7: when cycles do not overlap and hosts are distinct, the k-th cycle's
\* resolution_total sample for h has value k and its resolution_error_total
\* sample has the number of failed lookups of h in cycles 1..k.
C7_SamplesReflectOwnCycle ==
  Distinct =>
    \A k \in Cycles : \A i \in DOMAIN hosts :
      /\ pc[<<k, i>>] \in PastSendTotal =>
           /\ Matching(ch[k], TotalName, hosts[i]) = 1
           /\ CopiesIn(Sample(TotalName, hosts[i], k), ch[k]) = 1
      /\ pc[<<k, i>>] \in PastSendError =>
           /\ Matching(ch[k], TotalErrorName, hosts[i]) = 1
           /\ CopiesIn(Sample(TotalErrorName, hosts[i], FailedUpTo(i, k)), ch[k]) = 1

\* The second of two cycles has emitted total 2 and error total 1 for a host
\* whose first lookup failed and second succeeded.
C7_Witness ==
  /\ hosts = <<"a", "b">>
  /\ Returned(2)
  /\ err[<<1, 1>>] = "error"
  /\ err[<<2, 1>>] = "nil"
  /\ CopiesIn(Sample(TotalErrorName, "a", 1), ch[1]) = 1
  /\ CopiesIn(Sample(TotalName, "a", 2), ch[2]) = 1
  /\ CopiesIn(Sample(TotalErrorName, "a", 1), ch[2]) = 1

\* ------------------------------------------------------------------ C8
\* Cycle c has returned with the failed probe g and every other probe of the
\* cycle complete: g has logged, incremented both counters, emitted its
\* three samples and signalled the wait group, and so has each sibling.
FailureContained(c, g) ==
  /\ Returned(c)
  /\ logged[g] = 1
  /\ argTotal[g] >= 1
  /\ argError[g] >= 1
  /\ Matching(ch[c], TotalName, HostOf(g)) = Occurrences(HostOf(g))
  /\ Matching(ch[c], TotalErrorName, HostOf(g)) = Occurrences(HostOf(g))
  /\ Matching(ch[c], LatencyName, HostOf(g)) = Occurrences(HostOf(g))
  /\ wg[c] = 0
  /\ \A o \in ProbesOf(c) : pc[o] = "exited" /\ SamplesSent(o)

\* C8: a failed lookup never aborts or fails the cycle: under fair
\* scheduling, once the lookup of a probe has failed, the probe goes on to
\* increment the counters, emit its three samples and signal the wait group,
\* the other probes of the cycle complete as well, and Collect returns.
C8_FailedLookupNeverAborts ==
  \A c \in Cycles : \A g \in Probes :
    (g[1] = c /\ g[2] \in DOMAIN hosts /\ err[g] = "error")
      ~> (g[2] \in DOMAIN hosts /\ FailureContained(c, g))

\* ------------------------------------------------------------------ C9
\* C9: under fair scheduling, with every lookup returning and the sink
\* receiving every sample, every Collect invocation that has started
\* eventually returns.
C9_EveryCycleReturns ==
  \A c \in Cycles : InFlight(c) ~> Returned(c)

\* ----------------------------------------------------------------- C10
\* C10: the latency a probe emits is the time its lookup completed minus the
\* time the probe started, for a successful and for a failed lookup alike.
C10_LatencyIsLookupTime ==
  \A g \in Probes :
    (g[2] \in DOMAIN hosts /\ pc[g] \in {"wgDone", "exited"}) =>
      /\ elapsed[g] = lookupEnd[g] - start[g]
      /\ CopiesIn(Sample(LatencyName, HostOf(g), lookupEnd[g] - start[g]), ch[g[1]]) >= 1

\* ----------------------------------------------------------------- C11
\* C11: with an empty registry a Collect cycle launches no probe, emits no
\* sample, leaves both counter maps as they were and returns without waiting.
C11_EmptyRegistryNoWork ==
  hosts = <<>> =>
    /\ \A g \in Probes : pc[g] = "idle"
    /\ \A c \in Cycles : ch[c] = EmptyBag
    /\ totalCount = <<>>
    /\ totalErrorCount = <<>>
    /\ \A c \in Cycles : InFlight(c) => ENABLED Wait(c)

\* Two cycles over the empty registry have returned.
C11_Witness ==
  /\ hosts = <<>>
  /\ Returned(1)
  /\ Returned(2)

\* ----------------------------------------------------------------- C12
\* C12: within one probe the attempt increment comes before the error
\* increment (of a failed lookup), and both before the reads for the samples.
C12_AttemptThenErrorThenRead ==
  \A g \in Probes :
    /\ (err[g] = "error" /\ pc[g] \in PastErrStore) => pc[g] \in PastTotStore
    /\ pc[g] \in PastReadTotal =>
         /\ pc[g] \in PastTotStore
         /\ err[g] = "error" => pc[g] \in PastErrStore

\* ----------------------------------------------------------------- C13
\* C13: the (total, error total) pair a probe emits stood together in one
\* state of the counters reached after the probe's own increments.
C13_PairIsSnapshot ==
  \A g \in Probes : pc[g] \in PastSendError => argError[g] \in snap[g]

\* ----------------------------------------------------------------- C14
\* C14: no goroutine reads a counter map while another writes it, and every
\* access to a counter map, the reads for emission included, is made by the
\* holder of that map's mutex.
C14_NoDataRace ==
  \A g \in Probes :
    /\ pc[g] = "readTotal" => (~WritingTotal(g) /\ totalCountMutex = g)
    /\ pc[g] = "readError" => (~WritingTotalError(g) /\ totalErrorCountMutex = g)
    /\ pc[g] = "totStore" => totalCountMutex = g
    /\ pc[g] = "errStore" => totalErrorCountMutex = g

\* ----------------------------------------------------------------- C15
\* Probe g waits for a mutex whose holder is inside its increment.
WaitsForWriter(g) ==
  \/ /\ pc[g] = "errLock"
     /\ totalErrorCountMutex # Free
     /\ pc[totalErrorCountMutex] = "errStore"
  \/ /\ pc[g] = "totLock"
     /\ totalCountMutex # Free
     /\ pc[totalCountMutex] = "totStore"

\* C15: probes do not wait on each other's lookups: Collect launches the
\* next probe whatever the earlier ones are doing, a launched probe can
\* always take its next step unless it waits for a mutex whose holder is
\* inside its increment (never in a lookup), and Collect has not returned
\* while a lookup of its cycle is pending.
C15_LookupsIndependent ==
  /\ \A c \in Cycles :
       (~crashed /\ InFlight(c) /\ idx[c] <= Len(hosts)) => ENABLED Go(c)
  /\ \A g \in Probes :
       (~crashed /\ pc[g] \notin {"idle", "exited"}) =>
         (ENABLED ProbeStep(g)) \/ WaitsForWriter(g)
  /\ \A c \in Cycles : Returned(c) =>
       \A g \in ProbesOf(c) : pc[g] \notin {"start", "lookup"}

\* One lookup of a cycle is pending while the cycle's other probe has sent
\* its samples and exited.
C15_Witness ==
  /\ Len(hosts) = 2
  /\ InFlight(1)
  /\ pc[<<1, 1>>] = "lookup"
  /\ pc[<<1, 2>>] = "exited"
  /\ BagCardinality(ch[1]) = 3

\* ----------------------------------------------------------------- C16
\* C16 as claimed: no probe waits to update a counter because a probe of a
\* different host is updating the same kind of counter.
C16_DifferentHostsNeverBlock ==
  \A g \in Probes : \A w \in Probes :
    (g[2] \in DOMAIN hosts /\ w[2] \in DOMAIN hosts /\ HostOf(g) # HostOf(w)) =>
      /\ ~(pc[g] = "totLock" /\ totalCountMutex = w)
      /\ ~(pc[g] = "errLock" /\ totalErrorCountMutex = w)

\* C16 as amended: a probe waiting to update a counter waits only for the one
\* probe (of any host) that holds the mutex of the same map, and that probe
\* is inside its increment and can complete it; a probe updating the other
\* map, in its lookup or sending blocks nobody.
C16_BlockedOnlyByWriterOfSameMap ==
  \A g \in Probes :
    /\ (~crashed /\ pc[g] = "totLock" /\ ~ENABLED TotLock(g)) =>
         /\ totalCountMutex \in Probes \ {g}
         /\ pc[totalCountMutex] = "totStore"
         /\ ENABLED TotStore(totalCountMutex)
    /\ (~crashed /\ pc[g] = "errLock" /\ ~ENABLED ErrLock(g)) =>
         /\ totalErrorCountMutex \in Probes \ {g}
         /\ pc[totalErrorCountMutex] = "errStore"
         /\ ENABLED ErrStore(totalErrorCountMutex)

\* The probe of host b waits for totalCountMutex, held by the probe of host a.
C16_Witness ==
  /\ hosts = <<"a", "b">>
  /\ pc[<<1, 2>>] = "totLock"
  /\ totalCountMutex = <<1, 1>>
  /\ pc[<<1, 1>>] = "totStore"

\* ----------------------------------------------------------------- C17
\* A step leaves each counter of each host as it is or adds one to it.
CountersGrowByOne ==
  \A h \in HostNames :
    /\ Get(totalCount', h) \in {Get(totalCount, h), Get(totalCount, h) + 1}
    /\ Get(totalErrorCount', h) \in {Get(totalErrorCount, h), Get(totalErrorCount, h) + 1}

\* C17: both counters of every host are zero at construction, and no step
\* lowers or resets one or raises it by more than one.
C17_CountersStartZeroAndGrow ==
  /\ \A h \in HostNames : Get(totalCount, h) = 0 /\ Get(totalErrorCount, h) = 0
  /\ [][CountersGrowByOne]_vars

\* Both counters of a host have been raised twice.
C17_Witness ==
  /\ Get(totalCount, "a") = 2
  /\ Get(totalErrorCount, "a") = 2

\* ----------------------------------------------------------------- C18
\* C18: in the samples one probe emits, the error total is at most the total.
C18_EmittedErrorAtMostTotal ==
  \A g \in Probes : pc[g] \in PastSendError => argError[g] <= argTotal[g]

\* ----------------------------------------------------------------- C19
\* C19: a probe holds a counter mutex only inside the increment of that
\* map, hence never in its lookup or while sending, never both mutexes at
\* once, and the holder of a mutex can always complete its increment.
C19_MutexOnlyAroundIncrement ==
  \A g \in Probes :
    /\ totalCountMutex = g => pc[g] = "totStore"
    /\ totalErrorCountMutex = g => pc[g] = "errStore"
    /\ ~(totalCountMutex = g /\ totalErrorCountMutex = g)
    /\ pc[g] \in {"lookup", "sendTotal", "sendError", "sendLatency"} =>
         (totalCountMutex # g /\ totalErrorCountMutex # g)
    /\ (~crashed /\ totalCountMutex = g) => ENABLED TotStore(g)
    /\ (~crashed /\ totalErrorCountMutex = g) => ENABLED ErrStore(g)

\* The two mutexes are held at once, by different probes.
C19_Witness ==
  /\ hosts = <<"a", "b">>
  /\ totalCountMutex = <<1, 1>>
  /\ totalErrorCountMutex = <<1, 2>>

\* ----------------------------------------------------------------- C20
\* C20: every occurrence of a host in the registry is probed in every cycle:
\* after N completed cycles totalCount[h] is N times the occurrences of h,
\* and a completed cycle has the three samples of each registry entry.
C20_EveryOccurrenceProbed ==
  /\ Quiescent =>
       \A h \in HostNames : Get(totalCount, h) = NumReturned * Occurrences(h)
  /\ \A c \in Cycles : Returned(c) =>
       /\ \A i \in DOMAIN hosts : pc[<<c, i>>] = "exited" /\ SamplesSent(<<c, i>>)
       /\ \A h \in HostNames :
            Matching(ch[c], TotalName, h) + Matching(ch[c], TotalErrorName, h)
              + Matching(ch[c], LatencyName, h) = 3 * Occurrences(h)

\* Two cycles over a registry listing one host twice have completed.
C20_Witness ==
  /\ hosts = <<"a", "a">>
  /\ Quiescent
  /\ NumReturned = 2
  /\ Get(totalCount, "a") = 4
  /\ Matching(ch[2], TotalName, "a") = 2

====
